---- MODULE Spec2Model ----
(***************************************************************************)
(* Risk-triggered workflow orchestrator of EY-Automotive:                  *)
(*   app/orchestrator.py        MasterAgent (hand-written branches)        *)
(*   app/orchestrator_graph.py  MasterAgentGraph (graph of WorkflowNodes)  *)
(*   app/graph_nodes.py         WorkflowNodes (the graph's steps)          *)
(*   app/ueba.py                UEBAGuard (audit monitor)                  *)
(*   app/state.py               VEHICLE_STATE, UEBA_LOG, UEBA_ALERTS       *)
(*                                                                         *)
(* Risk scores are fixed-point hundredths (0.85 is 85).  Time is in whole  *)
(* seconds.  Optional values are <<>> (None) or <<v>>.  Dictionaries are   *)
(* functions whose domain is the set of keys present.                      *)
(***************************************************************************)
EXTENDS Integers, Sequences, FiniteSets, TLC

VARIABLES
    impl,           \* which orchestrator the process constructed
    run,            \* run id -> local state of one process_telematics call
    VEHICLE_STATE,  \* app/state.py: vehicle id -> last summary
    UEBA_LOG,       \* app/state.py: event stream
    UEBA_ALERTS,    \* app/state.py: alert stream
    window,         \* UEBAGuard.window: key -> retained timestamps
    now,            \* last value read from time.time()
    fn_in,          \* argument of the pure function under test
    fn_out          \* its result

vars == <<impl, run, VEHICLE_STATE, UEBA_LOG, UEBA_ALERTS, window, now, fn_in, fn_out>>

(***************************************************************************)
(* Bounds of the model                                                     *)
(***************************************************************************)
MaxRuns == 1
MaxLogCalls == 6

(***************************************************************************)
(* Program constants                                                       *)
(***************************************************************************)
CRITICAL_THRESHOLD == 80
HIGH_THRESHOLD == 60
MEDIUM_THRESHOLD == 40
MaxScore == 100
WindowKeep == 10
WindowSec == 3
SpikeLimit == 5

None == <<>>
Some(v) == <<v>>
EmptyDict == [k \in {} |-> TRUE]
Put(d, k, v) == (k :> v) @@ d
Has(d, k) == k \in DOMAIN d

Scores == 0..MaxScore
Tiers == {"LOW", "MEDIUM", "HIGH", "CRITICAL"}
Components ==
    {"engine", "brakes", "battery", "injector", "coolant", "oil", "transmission", "brake_system"}

(***************************************************************************)
(* Risk classifier                                                         *)
(***************************************************************************)
WorkflowNodes_classify_risk_exclusive(risk_score) ==
    IF risk_score > 80 THEN "CRITICAL"
    ELSE IF risk_score > 60 THEN "HIGH"
    ELSE IF risk_score > 40 THEN "MEDIUM"
    ELSE "LOW"

WorkflowNodes_classify_risk(risk_score) ==
    IF risk_score >= 80 THEN "CRITICAL"
    ELSE IF risk_score >= 60 THEN "HIGH"
    ELSE IF risk_score >= 40 THEN "MEDIUM"
    ELSE "LOW"

MasterAgent_classify_risk(risk_score) ==
    IF risk_score >= CRITICAL_THRESHOLD THEN "CRITICAL"
    ELSE IF risk_score >= HIGH_THRESHOLD THEN "HIGH"
    ELSE IF risk_score >= MEDIUM_THRESHOLD THEN "MEDIUM"
    ELSE "LOW"

(***************************************************************************)
(* RCA action generator (one copy in each orchestrator)                    *)
(***************************************************************************)
\* str.lower() on the component names PredictedIssue admits: all of them are
\* lower case already, so lower() returns them unchanged.
Lower(component) == component

\* str.lower() on a tier name
LowerTier(tier) ==
    CASE tier = "CRITICAL" -> "critical"
      [] tier = "HIGH" -> "high"
      [] tier = "MEDIUM" -> "medium"
      [] OTHER -> "low"

WorkflowNodes_component_actions ==
    [transmission |-> <<"Review transmission fluid supplier quality",
                        "Check clutch pack torque specifications",
                        "Analyze gear wear patterns across fleet">>,
     brake_system |-> <<"Inspect brake pad material batch",
                        "Review hydraulic pressure calibration",
                        "Check ABS sensor correlation">>,
     engine       |-> <<"Analyze oil quality and intervals",
                        "Review ECU software version",
                        "Check turbocharger supplier quality">>,
     battery      |-> <<"Review charging cycle patterns",
                        "Check BMS firmware version",
                        "Analyze temperature exposure">>]

MasterAgent_component_actions ==
    [transmission |-> <<"Review transmission fluid supplier quality",
                        "Check clutch pack torque specifications",
                        "Analyze gear wear patterns across fleet">>,
     brake_system |-> <<"Inspect brake pad material batch",
                        "Review hydraulic pressure calibration",
                        "Check ABS sensor correlation">>,
     engine       |-> <<"Analyze oil quality and intervals",
                        "Review ECU software version",
                        "Check turbocharger supplier quality">>,
     battery      |-> <<"Review charging cycle patterns",
                        "Check BMS firmware version",
                        "Analyze temperature exposure">>]

\* The bulletin is appended after the table actions instead of inserted at 0.
WorkflowNodes_generate_rca_actions_appended(component, severity) ==
    LET comp_key == Lower(component)
        a1 == IF comp_key \in DOMAIN WorkflowNodes_component_actions
              THEN WorkflowNodes_component_actions[comp_key]
              ELSE <<"Investigate " \o component \o " supplier",
                     "Review " \o component \o " assembly procedures">>
        a2 == IF severity = "CRITICAL"
              THEN a1 \o <<"URGENT: Issue service bulletin">> \o <<"Emergency fleet inspection">>
              ELSE a1
    IN a2 \o <<"Update predictive model with case">>

WorkflowNodes_generate_rca_actions(component, severity) ==
    LET comp_key == Lower(component)
        a1 == IF comp_key \in DOMAIN WorkflowNodes_component_actions
              THEN WorkflowNodes_component_actions[comp_key]
              ELSE <<"Investigate " \o component \o " supplier",
                     "Review " \o component \o " assembly procedures">>
        a2 == IF severity = "CRITICAL"
              THEN <<"URGENT: Issue service bulletin">> \o a1 \o <<"Emergency fleet inspection">>
              ELSE a1
    IN a2 \o <<"Update predictive model with case">>

\* HIGH is escalated like CRITICAL.
MasterAgent_generate_rca_actions_escalated(component, severity) ==
    LET comp_key == Lower(component)
        a1 == IF comp_key \in DOMAIN MasterAgent_component_actions
              THEN MasterAgent_component_actions[comp_key]
              ELSE <<"Investigate " \o component \o " supplier",
                     "Review " \o component \o " assembly procedures">>
        a2 == IF severity \in {"critical", "high"}
              THEN <<"URGENT: Issue service bulletin">> \o a1 \o <<"Emergency fleet inspection">>
              ELSE a1
    IN a2 \o <<"Update predictive model with case">>

MasterAgent_generate_rca_actions(component, severity) ==
    LET comp_key == Lower(component)
        a1 == IF comp_key \in DOMAIN MasterAgent_component_actions
              THEN MasterAgent_component_actions[comp_key]
              ELSE <<"Investigate " \o component \o " supplier",
                     "Review " \o component \o " assembly procedures">>
        a2 == IF severity = "critical"
              THEN <<"URGENT: Issue service bulletin">> \o a1 \o <<"Emergency fleet inspection">>
              ELSE a1
    IN a2 \o <<"Update predictive model with case">>

(***************************************************************************)
(* Audit monitor (UEBAGuard)                                               *)
(***************************************************************************)
ALLOW ==
    [data       |-> {"telematics:read"},
     diagnosis  |-> {"telematics:read", "predictions:write"},
     voice      |-> {"owner:contact", "summary:read"},
     scheduling |-> {"slots:read", "booking:write"},
     feedback   |-> {"owner:contact", "feedback:write"},
     mfg        |-> {"rca:write", "history:read"},
     master     |-> {"telematics:read", "predictions:read", "owner:contact",
                     "slots:read", "booking:write", "feedback:write", "rca:write"}]

\* self.ALLOW.get(actor, [])
AllowList(actor) == IF actor \in DOMAIN ALLOW THEN ALLOW[actor] ELSE {}

Unauthorized_never(actor, resource) == FALSE

\* resource not in self.ALLOW.get(actor, [])
Unauthorized(actor, resource) == resource \notin AllowList(actor)

\* key = f"{actor}:{resource}"
WindowKey(actor, resource) == actor \o ":" \o resource

LastN(s, n) == IF Len(s) > n THEN SubSeq(s, Len(s) - n + 1, Len(s)) ELSE s

\* The ten oldest timestamps are kept instead of the ten newest.
WindowAfter_oldest(w, key, ts) ==
    LET arr == Append(IF key \in DOMAIN w THEN w[key] ELSE <<>>, ts)
    IN IF Len(arr) > WindowKeep THEN SubSeq(arr, 1, WindowKeep) ELSE arr

\* arr = window.setdefault(key, []); arr.append(ts); keep the last 10
WindowAfter(w, key, ts) ==
    LET arr == Append(IF key \in DOMAIN w THEN w[key] ELSE <<>>, ts)
    IN IF Len(arr) > WindowKeep THEN LastN(arr, WindowKeep) ELSE arr

\* recent = [x for x in arr if ts - x <= 3.0]
Recent(arr, ts) == SelectSeq(arr, LAMBDA x : ts - x <= WindowSec)

\* len(recent) > 5
IsSpike(arr, ts) == Len(Recent(arr, ts)) > SpikeLimit

UEBAEvent(ts, actor, action, resource, details) ==
    [ts |-> ts, actor |-> actor, action |-> action, resource |-> resource, details |-> details]

UEBAAlert(ts, severity, actor, reason, ev) ==
    [ts |-> ts, severity |-> severity, actor |-> actor, reason |-> reason, event |-> ev]

\* An access equal to the newest event is merged into it instead of appended.
UEBA_log_coalesced(actor, action, resource, details, ts) ==
    LET ev  == UEBAEvent(ts, actor, action, resource, details)
        key == WindowKey(actor, resource)
        arr == WindowAfter(window, key, ts)
        n   == Len(UEBA_LOG)
        same == /\ n > 0
                /\ UEBA_LOG[n].actor = actor
                /\ UEBA_LOG[n].resource = resource
                /\ UEBA_LOG[n].details = details
    IN /\ UEBA_LOG' = IF same THEN [UEBA_LOG EXCEPT ![n] = ev] ELSE Append(UEBA_LOG, ev)
       /\ UEBA_ALERTS' = UEBA_ALERTS
       /\ window' = Put(window, key, arr)
       /\ now' = ts

\* Only the four newest events are kept.
UEBA_log_capped(actor, action, resource, details, ts) ==
    LET ev  == UEBAEvent(ts, actor, action, resource, details)
        key == WindowKey(actor, resource)
        arr == WindowAfter(window, key, ts)
        high == IF Unauthorized(actor, resource)
                THEN <<UEBAAlert(ts, "high", actor, "Unauthorized resource: " \o resource, ev)>>
                ELSE <<>>
        spike == IF IsSpike(arr, ts)
                 THEN <<UEBAAlert(ts, "medium", actor, "Spike in actions", ev)>>
                 ELSE <<>>
    IN /\ UEBA_LOG' = LastN(Append(UEBA_LOG, ev), 4)
       /\ UEBA_ALERTS' = UEBA_ALERTS \o high \o spike
       /\ window' = Put(window, key, arr)
       /\ now' = ts

\* UEBAGuard.log with time.time() returning ts
UEBA_log(actor, action, resource, details, ts) ==
    LET ev  == UEBAEvent(ts, actor, action, resource, details)
        key == WindowKey(actor, resource)
        arr == WindowAfter(window, key, ts)
        high == IF Unauthorized(actor, resource)
                THEN <<UEBAAlert(ts, "high", actor, "Unauthorized resource: " \o resource, ev)>>
                ELSE <<>>
        spike == IF IsSpike(arr, ts)
                 THEN <<UEBAAlert(ts, "medium", actor, "Spike in actions", ev)>>
                 ELSE <<>>
    IN /\ UEBA_LOG' = Append(UEBA_LOG, ev)
       /\ UEBA_ALERTS' = UEBA_ALERTS \o high \o spike
       /\ window' = Put(window, key, arr)
       /\ now' = ts

(***************************************************************************)
(* Initial state: the module-level stores are empty, no run has started    *)
(***************************************************************************)
Impls == {"MasterAgent", "MasterAgentGraph"}
Runs == 1..MaxRuns

Vehicles == {"v1", "v2"}

\* Results the collaborators return (they are external to the orchestrator).
AnalysisResult == [anomalies |-> {"engine_overheat"}]
RunComponents == {"engine", "brakes"}
RunScores == {30, 40, 60, 80, 85}
ScriptResult == [script |-> "text"]
OptionLists == { <<>>, <<"A", "B", "C">> }
BookingIds == {"BK1"}
FeedbackResult == [message |-> "survey"]

\* Local state of one call of process_telematics.  MasterAgentGraph keeps it
\* in AgentState; MasterAgent keeps analysis, issue, script, accepted,
\* proposal and confirmation in local variables of the same meaning.
\* calls is the sequence of collaborator operations invoked so far.
IdleRun ==
    [pc |-> "idle", t |-> None, analysis |-> None, issue |-> None, risk_level |-> None,
     voice_script |-> None, customer_accepted |-> None, appointment_proposal |-> None,
     appointment_confirmed |-> None, feedback_requested |-> None, rca_submitted |-> None,
     actions |-> EmptyDict, calls |-> <<>>, error |-> None]

Init ==
    /\ impl \in Impls
    /\ run = [r \in Runs |-> IdleRun]
    /\ VEHICLE_STATE = EmptyDict
    /\ UEBA_LOG = <<>>
    /\ UEBA_ALERTS = <<>>
    /\ window = EmptyDict
    /\ now = 0
    /\ fn_in = None
    /\ fn_out = None

(***************************************************************************)
(* Steps shared by both orchestrators                                      *)
(***************************************************************************)
Waiting == {"analyze", "predict", "craft_script", "call_owner", "propose", "confirm",
            "request_feedback", "submit_rca"}

\* `await collaborator.op(arg)`: the call is issued and the run suspends.
Invoke(st, op, arg) ==
    [st EXCEPT !.pc = op, !.calls = Append(@, [op |-> op, arg |-> arg])]

\* The call the run is suspended in.
LastCall(st) == st.calls[Len(st.calls)]

\* The run's coroutine returns its ledger.
Finish(st) == [st EXCEPT !.pc = "done"]

\* Python truthiness of an Optional[bool]
TruthyBool(opt) == opt # None /\ opt[1]
\* Python truthiness of an Optional[dict] holding a model_dump(), which is
\* never the empty dict
TruthyDict(opt) == opt # None

\* time.time() read by a log call made inside a run: one second after the
\* previous reading
RunClock == {now + 1}

Summary(st) ==
    [last_telematics |-> st.t[1], analysis |-> st.analysis[1],
     issue |-> st.issue[1], timestamp |-> st.t[1].timestamp]

(***************************************************************************)
(* MasterAgent (app/orchestrator.py)                                       *)
(***************************************************************************)
\* The summary is not stored when predict returns.
MasterAgent_store_skipped(v, st) == UNCHANGED VEHICLE_STATE

\* process_telematics line 49-54
MasterAgent_store(v, st) == VEHICLE_STATE' = Put(VEHICLE_STATE, v, Summary(st))

\* The branch thresholds are exclusive.
MasterAgent_branch_exclusive(risk_score) ==
    IF risk_score > CRITICAL_THRESHOLD THEN "critical"
    ELSE IF risk_score > HIGH_THRESHOLD THEN "high"
    ELSE IF risk_score > MEDIUM_THRESHOLD THEN "medium"
    ELSE "low"

\* The branch process_telematics takes (lines 64-70).
MasterAgent_branch(risk_score) ==
    IF risk_score >= CRITICAL_THRESHOLD THEN "critical"
    ELSE IF risk_score >= HIGH_THRESHOLD THEN "high"
    ELSE IF risk_score >= MEDIUM_THRESHOLD THEN "medium"
    ELSE "low"

MA_Branch(st) == MasterAgent_branch(st.issue[1].risk_score)

\* resource named by the decision log of each handler
MA_PathResource(branch) ==
    CASE branch = "critical" -> "critical_path"
      [] branch = "high" -> "high_risk_path"
      [] OTHER -> "medium_risk_path"

\* _submit_rca up to its await: the insight is built, submit_rca is called.
\* (title and summary are text that no step reads; only actions is kept)
MA_submit_rca_call(st, severity) ==
    Invoke(st, "submit_rca",
           [actions |-> MasterAgent_generate_rca_actions(st.issue[1].component, severity)])

\* A request is taken up only while no other request is in flight.
MA_Start_exclusive(r) ==
    /\ impl = "MasterAgent"
    /\ run[r].pc = "idle"
    /\ \A q \in DOMAIN run : run[q].pc \in {"idle", "done", "failed"}
    /\ \E v \in Vehicles, ts \in RunClock :
          LET t == [vehicle_id |-> v, timestamp |-> r]
          IN /\ UEBA_log("master", "read", "telematics:read", [vehicle_id |-> v], ts)
             /\ run' = [run EXCEPT ![r] = Invoke([@ EXCEPT !.t = Some(t)], "analyze", v)]
    /\ UNCHANGED <<impl, VEHICLE_STATE, fn_in, fn_out>>

\* line 40-43
MA_Start(r) ==
    /\ impl = "MasterAgent"
    /\ run[r].pc = "idle"
    /\ \E v \in Vehicles, ts \in RunClock :
          LET t == [vehicle_id |-> v, timestamp |-> r]
          IN /\ UEBA_log("master", "read", "telematics:read", [vehicle_id |-> v], ts)
             /\ run' = [run EXCEPT ![r] = Invoke([@ EXCEPT !.t = Some(t)], "analyze", v)]
    /\ UNCHANGED <<impl, VEHICLE_STATE, fn_in, fn_out>>

\* line 43-46
MA_AnalyzeReturns(r) ==
    /\ impl = "MasterAgent"
    /\ run[r].pc = "analyze"
    /\ run' = [run EXCEPT ![r] =
                  Invoke([@ EXCEPT !.analysis = Some(AnalysisResult)], "predict", @.t[1].vehicle_id)]
    /\ UNCHANGED <<impl, VEHICLE_STATE, UEBA_LOG, UEBA_ALERTS, window, now, fn_in, fn_out>>

\* line 46-76 and the head of the handler chosen, up to its first await
MA_PredictReturns(r) ==
    /\ impl = "MasterAgent"
    /\ run[r].pc = "predict"
    /\ \E c \in RunComponents, s \in RunScores :
          LET issue == [component |-> c, risk_score |-> s]
              v  == run[r].t[1].vehicle_id
              s1 == [run[r] EXCEPT !.issue = Some(issue)]
              s2 == [s1 EXCEPT !.actions =
                        [analysis |-> s1.analysis[1], issue |-> issue,
                         risk_level |-> MasterAgent_classify_risk(s)]]
              branch == MasterAgent_branch(s)
          IN /\ MasterAgent_store(v, s1)
             /\ IF branch = "low"
                THEN /\ run' = [run EXCEPT ![r] =
                                  Finish([s2 EXCEPT !.actions = Put(@, "voice",
                                      [accepted |-> FALSE,
                                       reason |-> "Risk below engagement threshold"])])]
                     /\ UNCHANGED <<UEBA_LOG, UEBA_ALERTS, window, now>>
                ELSE /\ \E ts \in RunClock :
                          UEBA_log("master", "decision", MA_PathResource(branch),
                                   [vehicle_id |-> v, component |-> c], ts)
                     /\ run' = [run EXCEPT ![r] = Invoke(s2, "craft_script", c)]
    /\ UNCHANGED <<impl, fn_in, fn_out>>

\* _handle_medium_risk line 176-189; _handle_critical_risk / _handle_high_risk
\* line 98-100 / 134-136
MA_CraftScriptReturns(r) ==
    /\ impl = "MasterAgent"
    /\ run[r].pc = "craft_script"
    /\ LET s1 == [run[r] EXCEPT !.voice_script = Some(ScriptResult)]
       IN run' = [run EXCEPT ![r] =
             IF MA_Branch(s1) = "medium"
             THEN Finish([s1 EXCEPT !.actions =
                     Put(Put(@, "voice", [notification_sent |-> TRUE, script |-> ScriptResult,
                                          urgency |-> "medium"]),
                         "monitoring", [status |-> "active", next_check |-> "24_hours"])])
             ELSE Invoke(s1, "call_owner", s1.t[1].vehicle_id)]
    /\ UNCHANGED <<impl, VEHICLE_STATE, UEBA_LOG, UEBA_ALERTS, window, now, fn_in, fn_out>>

\* _handle_critical_risk line 100-108; _handle_high_risk line 136-144, 161-164
MA_CallOwnerReturns(r) ==
    /\ impl = "MasterAgent"
    /\ run[r].pc = "call_owner"
    /\ \E accepted \in BOOLEAN :
          LET branch == MA_Branch(run[r])
              s1 == [run[r] EXCEPT !.customer_accepted = Some(accepted),
                                   !.actions = Put(@, "voice",
                                       [accepted |-> accepted, script |-> run[r].voice_script[1],
                                        urgency |-> branch])]
          IN run' = [run EXCEPT ![r] =
                IF branch = "critical" \/ accepted
                THEN Invoke(s1, "propose", s1.t[1].vehicle_id)
                ELSE Finish([s1 EXCEPT !.actions.voice =
                                Put(@, "follow_up_required", TRUE)])]
    /\ UNCHANGED <<impl, VEHICLE_STATE, UEBA_LOG, UEBA_ALERTS, window, now, fn_in, fn_out>>

\* chosen = proposal.options[0]
MA_Chosen_last(options) == options[Len(options)]

MA_Chosen(options) == options[1]

\* _handle_critical_risk line 108-111, 120; _handle_high_risk line 144-147, 164
MA_ProposeReturns(r) ==
    /\ impl = "MasterAgent"
    /\ run[r].pc = "propose"
    /\ \E options \in OptionLists :
          LET branch == MA_Branch(run[r])
              s1 == [run[r] EXCEPT !.appointment_proposal = Some([options |-> options])]
          IN run' = [run EXCEPT ![r] =
                IF options # <<>>
                THEN Invoke(s1, "confirm", MA_Chosen(options))
                ELSE IF branch = "critical"
                     THEN MA_submit_rca_call(s1, "critical")
                     ELSE Finish(s1)]
    /\ UNCHANGED <<impl, VEHICLE_STATE, UEBA_LOG, UEBA_ALERTS, window, now, fn_in, fn_out>>

\* _handle_critical_risk line 111-120; _handle_high_risk line 147-156
MA_ConfirmReturns(r) ==
    /\ impl = "MasterAgent"
    /\ run[r].pc = "confirm"
    /\ \E b \in BookingIds :
          LET branch == MA_Branch(run[r])
              slot == LastCall(run[r]).arg
              confirmation == [chosen_slot |-> slot, booking_id |-> b]
              s1 == [run[r] EXCEPT !.appointment_confirmed = Some(confirmation)]
          IN run' = [run EXCEPT ![r] =
                IF branch = "critical"
                THEN MA_submit_rca_call(
                        [s1 EXCEPT !.actions = Put(@, "scheduling",
                            [proposal |-> s1.appointment_proposal[1],
                             confirmation |-> confirmation,
                             priority |-> "critical",
                             auto_scheduled |-> ~s1.customer_accepted[1]])],
                        "critical")
                ELSE Invoke([s1 EXCEPT !.actions = Put(@, "scheduling",
                                [proposal |-> s1.appointment_proposal[1],
                                 confirmation |-> confirmation])],
                            "request_feedback", b)]
    /\ UNCHANGED <<impl, VEHICLE_STATE, UEBA_LOG, UEBA_ALERTS, window, now, fn_in, fn_out>>

\* _handle_high_risk line 154-160
MA_FeedbackReturns(r) ==
    /\ impl = "MasterAgent"
    /\ run[r].pc = "request_feedback"
    /\ run' = [run EXCEPT ![r] =
                  MA_submit_rca_call([@ EXCEPT !.actions = Put(@, "feedback", FeedbackResult)],
                                     "high")]
    /\ UNCHANGED <<impl, VEHICLE_STATE, UEBA_LOG, UEBA_ALERTS, window, now, fn_in, fn_out>>

\* _submit_rca line 209-210, then the handler returns actions
MA_SubmitRcaReturns(r) ==
    /\ impl = "MasterAgent"
    /\ run[r].pc = "submit_rca"
    /\ run' = [run EXCEPT ![r] =
                  Finish([run[r] EXCEPT !.actions = Put(@, "rca", LastCall(run[r]).arg)])]
    /\ UNCHANGED <<impl, VEHICLE_STATE, UEBA_LOG, UEBA_ALERTS, window, now, fn_in, fn_out>>

\* str(e) of the exception a collaborator operation raises: the abstract
\* clients raise NotImplementedError, whose text is empty.
ExceptionTexts == {""}

\* What the caller receives.  ingest_telematics catches the exception that
\* left MasterAgent.process_telematics and raises an HTTP error holding its
\* text; MasterAgentGraph.process_telematics lets the exception through.
RaisedError(text) ==
    IF impl = "MasterAgent"
    THEN [status_code |-> 500, detail |-> text]
    ELSE [detail |-> text]

\* A collaborator call raises: the exception leaves process_telematics.
CollaboratorRaises(r) ==
    /\ run[r].pc \in Waiting
    /\ \E text \in ExceptionTexts :
          run' = [run EXCEPT ![r] = [run[r] EXCEPT !.pc = "failed",
                                                   !.error = Some(RaisedError(text))]]
    /\ UNCHANGED <<impl, VEHICLE_STATE, UEBA_LOG, UEBA_ALERTS, window, now, fn_in, fn_out>>

(***************************************************************************)
(* MasterAgentGraph (app/orchestrator_graph.py) over WorkflowNodes         *)
(* (app/graph_nodes.py).  Each node is split at its await: the part up to  *)
(* the collaborator call, and the part that builds the new state from the  *)
(* result.  A node that awaits nothing runs through to the next node.      *)
(***************************************************************************)
\* A LOW run is engaged like a MEDIUM one.
route_by_risk_engage_all(st) ==
    LET risk_level == st.risk_level[1]
    IN IF risk_level = "CRITICAL" THEN "critical"
       ELSE IF risk_level = "HIGH" THEN "high"
       ELSE "medium"

\* A run is sent down the LOW route once the audit stream holds more than
\* one event.
route_by_risk_blocked_by_audit(st) ==
    LET risk_level == st.risk_level[1]
    IN IF Len(UEBA_LOG) > 1 THEN "low"
       ELSE IF risk_level = "CRITICAL" THEN "critical"
       ELSE IF risk_level = "HIGH" THEN "high"
       ELSE IF risk_level = "MEDIUM" THEN "medium"
       ELSE "low"

route_by_risk(st) ==
    LET risk_level == st.risk_level[1]
    IN IF risk_level = "CRITICAL" THEN "critical"
       ELSE IF risk_level = "HIGH" THEN "high"
       ELSE IF risk_level = "MEDIUM" THEN "medium"
       ELSE "low"

\* CRITICAL is routed by consent like HIGH.
route_after_call_by_consent(st) ==
    LET accepted == TruthyBool(st.customer_accepted)
        risk_level == st.risk_level[1]
    IN IF risk_level \in {"CRITICAL", "HIGH"} /\ accepted THEN "schedule"
       ELSE IF risk_level \in {"CRITICAL", "HIGH"} /\ ~accepted THEN "rca_only"
       ELSE "end"

route_after_call(st) ==
    LET accepted == TruthyBool(st.customer_accepted)
        risk_level == st.risk_level[1]
    IN IF risk_level = "CRITICAL" THEN "schedule"
       ELSE IF risk_level = "HIGH" /\ accepted THEN "schedule"
       ELSE IF risk_level = "HIGH" /\ ~accepted THEN "rca_only"
       ELSE IF risk_level = "MEDIUM" THEN "end"
       ELSE "end"

\* submit_rca line 161-177
submit_rca_call(st) ==
    Invoke(st, "submit_rca",
           [actions |-> WorkflowNodes_generate_rca_actions(st.issue[1].component,
                                                           st.risk_level[1])])

\* The insight is not stored in the ledger.
submit_rca_result_unrecorded(st) == [st EXCEPT !.rca_submitted = Some(TRUE)]

\* submit_rca line 179-186
submit_rca_result(st) ==
    [st EXCEPT !.rca_submitted = Some(TRUE),
               !.actions = Put(@, "rca", LastCall(st).arg)]

\* The feedback request is skipped even after a confirmed booking.
request_feedback_call_skipped(st) == submit_rca_call(st)

\* request_feedback line 142-146, 157; edge request_feedback -> submit_rca
request_feedback_call(st) ==
    IF TruthyDict(st.appointment_confirmed)
    THEN Invoke(st, "request_feedback", st.appointment_confirmed[1].booking_id)
    ELSE submit_rca_call(st)

\* request_feedback line 148-155
request_feedback_result(st, feedback) ==
    [st EXCEPT !.feedback_requested = Some(TRUE),
               !.actions = Put(@, "feedback", feedback)]

\* chosen = proposal.options[0]
G_Chosen(options) == options[1]

\* confirm_appointment line 112-119, 138; edge confirm_appointment -> request_feedback
confirm_appointment_call(st) ==
    LET options == st.appointment_proposal[1].options
    IN IF options # <<>>
       THEN Invoke(st, "confirm", G_Chosen(options))
       ELSE request_feedback_call(st)

\* The confirmation is kept but no scheduling entry is written.
confirm_appointment_result_unrecorded(st, confirmation) ==
    [st EXCEPT !.appointment_confirmed = Some(confirmation)]

\* confirm_appointment line 121-136
confirm_appointment_result(st, confirmation) ==
    LET is_critical == st.risk_level[1] = "CRITICAL"
        auto_scheduled == is_critical /\ ~TruthyBool(st.customer_accepted)
    IN [st EXCEPT !.appointment_confirmed = Some(confirmation),
                  !.actions = Put(@, "scheduling",
                      [proposal |-> st.appointment_proposal[1],
                       confirmation |-> confirmation,
                       priority |-> LowerTier(st.risk_level[1]),
                       auto_scheduled |-> auto_scheduled])]

\* The owner is called again, up to three calls, before a slot is proposed.
propose_appointment_call_redial(st) ==
    IF Len(st.calls) < 6
    THEN Invoke(st, "call_owner", st.t[1].vehicle_id)
    ELSE Invoke(st, "propose", st.t[1].vehicle_id)

\* propose_appointment line 99-101
propose_appointment_call(st) == Invoke(st, "propose", st.t[1].vehicle_id)

\* propose_appointment line 103-106
propose_appointment_result(st, proposal) ==
    [st EXCEPT !.appointment_proposal = Some(proposal)]

\* The slot proposal is requested without waiting for the owner's answer.
call_customer_call_with_propose(st) ==
    Invoke(Invoke(st, "call_owner", st.t[1].vehicle_id), "propose", st.t[1].vehicle_id)

\* call_customer line 78-82
call_customer_call(st) == Invoke(st, "call_owner", st.t[1].vehicle_id)

\* The voice entry is replaced instead of merged.
call_customer_result_replaced(st, accepted) ==
    [st EXCEPT !.customer_accepted = Some(accepted),
               !.actions = Put(@, "voice",
                   [accepted |-> accepted, urgency |-> st.risk_level[1]])]

\* call_customer line 84-95
call_customer_result(st, accepted) ==
    [st EXCEPT !.customer_accepted = Some(accepted),
               !.actions = Put(@, "voice",
                   Put(Put(IF Has(st.actions, "voice") THEN st.actions.voice ELSE EmptyDict,
                           "accepted", accepted),
                       "urgency", st.risk_level[1]))]

\* craft_voice_script line 60-63
craft_voice_script_call(st) == Invoke(st, "craft_script", st.issue[1].component)

\* craft_voice_script line 65-72
craft_voice_script_result(st, script) ==
    [st EXCEPT !.voice_script = Some(script),
               !.actions = Put(@, "voice", [script |-> script])]

\* log_low_risk
log_low_risk(st) ==
    [st EXCEPT !.actions = Put(@, "voice",
        [accepted |-> FALSE, reason |-> "Risk below engagement threshold"])]

\* predict_failure line 44-56
predict_failure_result(st, issue) ==
    LET risk_level == WorkflowNodes_classify_risk(issue.risk_score)
    IN [st EXCEPT !.issue = Some(issue), !.risk_level = Some(risk_level),
                  !.actions = Put(Put(@, "issue", issue), "risk_level", risk_level)]

\* analyze_telematics line 34-38
analyze_telematics_result(st, analysis) ==
    [st EXCEPT !.analysis = Some(analysis), !.actions = Put(@, "analysis", analysis)]

\* The summary is stored as soon as the issue is known.
G_Commit_eager(r, st) ==
    /\ run' = [run EXCEPT ![r] = st]
    /\ VEHICLE_STATE' = IF st.issue # None
                        THEN Put(VEHICLE_STATE, st.t[1].vehicle_id, Summary(st))
                        ELSE VEHICLE_STATE

\* The summary is never stored.
G_Commit_unsaved(r, st) ==
    /\ run' = [run EXCEPT ![r] = st]
    /\ VEHICLE_STATE' = VEHICLE_STATE

\* process_telematics line 143-155 once the graph has reached END: the
\* summary is stored and the ledger returned.
G_Commit(r, st) ==
    /\ run' = [run EXCEPT ![r] = st]
    /\ VEHICLE_STATE' = IF st.pc = "done"
                        THEN Put(VEHICLE_STATE, st.t[1].vehicle_id, Summary(st))
                        ELSE VEHICLE_STATE

\* process_telematics line 128-144, analyze_telematics line 28-32
G_Start(r) ==
    /\ impl = "MasterAgentGraph"
    /\ run[r].pc = "idle"
    /\ \E v \in Vehicles, ts \in RunClock :
          LET t == [vehicle_id |-> v, timestamp |-> r]
          IN /\ UEBA_log("master", "read", "telematics:read", [vehicle_id |-> v], ts)
             /\ run' = [run EXCEPT ![r] = Invoke([@ EXCEPT !.t = Some(t)], "analyze", v)]
    /\ UNCHANGED <<impl, VEHICLE_STATE, fn_in, fn_out>>

\* analyze returns; edge analyze -> predict
G_AnalyzeReturns(r) ==
    /\ impl = "MasterAgentGraph"
    /\ run[r].pc = "analyze"
    /\ G_Commit(r, Invoke(analyze_telematics_result(run[r], AnalysisResult),
                          "predict", run[r].t[1].vehicle_id))
    /\ UNCHANGED <<impl, UEBA_LOG, UEBA_ALERTS, window, now, fn_in, fn_out>>

\* predict returns; conditional edges of predict
G_PredictReturns(r) ==
    /\ impl = "MasterAgentGraph"
    /\ run[r].pc = "predict"
    /\ \E c \in RunComponents, s \in RunScores :
          LET s1 == predict_failure_result(run[r], [component |-> c, risk_score |-> s])
          IN G_Commit(r, IF route_by_risk(s1) = "low"
                         THEN Finish(log_low_risk(s1))
                         ELSE craft_voice_script_call(s1))
    /\ UNCHANGED <<impl, UEBA_LOG, UEBA_ALERTS, window, now, fn_in, fn_out>>

\* craft_script returns; edge craft_script -> call_customer
G_CraftScriptReturns(r) ==
    /\ impl = "MasterAgentGraph"
    /\ run[r].pc = "craft_script"
    /\ G_Commit(r, call_customer_call(craft_voice_script_result(run[r], ScriptResult)))
    /\ UNCHANGED <<impl, UEBA_LOG, UEBA_ALERTS, window, now, fn_in, fn_out>>

\* call_owner returns; conditional edges of call_customer
G_CallOwnerReturns(r) ==
    /\ impl = "MasterAgentGraph"
    /\ run[r].pc = "call_owner"
    /\ \E accepted \in BOOLEAN :
          LET s1 == call_customer_result(run[r], accepted)
              route == route_after_call(s1)
          IN G_Commit(r, IF route = "schedule" THEN propose_appointment_call(s1)
                         ELSE IF route = "rca_only" THEN submit_rca_call(s1)
                         ELSE Finish(s1))
    /\ UNCHANGED <<impl, UEBA_LOG, UEBA_ALERTS, window, now, fn_in, fn_out>>

\* propose returns; edge propose_appointment -> confirm_appointment
G_ProposeReturns(r) ==
    /\ impl = "MasterAgentGraph"
    /\ run[r].pc = "propose"
    /\ \E options \in OptionLists :
          G_Commit(r, confirm_appointment_call(
                          propose_appointment_result(run[r], [options |-> options])))
    /\ UNCHANGED <<impl, UEBA_LOG, UEBA_ALERTS, window, now, fn_in, fn_out>>

\* confirm returns; edge confirm_appointment -> request_feedback
G_ConfirmReturns(r) ==
    /\ impl = "MasterAgentGraph"
    /\ run[r].pc = "confirm"
    /\ \E b \in BookingIds :
          G_Commit(r, request_feedback_call(
                          confirm_appointment_result(run[r],
                              [chosen_slot |-> LastCall(run[r]).arg, booking_id |-> b])))
    /\ UNCHANGED <<impl, UEBA_LOG, UEBA_ALERTS, window, now, fn_in, fn_out>>

\* request_feedback returns; edge request_feedback -> submit_rca
G_FeedbackReturns(r) ==
    /\ impl = "MasterAgentGraph"
    /\ run[r].pc = "request_feedback"
    /\ G_Commit(r, submit_rca_call(request_feedback_result(run[r], FeedbackResult)))
    /\ UNCHANGED <<impl, UEBA_LOG, UEBA_ALERTS, window, now, fn_in, fn_out>>

\* submit_rca returns; edge submit_rca -> END
G_SubmitRcaReturns(r) ==
    /\ impl = "MasterAgentGraph"
    /\ run[r].pc = "submit_rca"
    /\ G_Commit(r, Finish(submit_rca_result(run[r])))
    /\ UNCHANGED <<impl, UEBA_LOG, UEBA_ALERTS, window, now, fn_in, fn_out>>

Next ==
    \E r \in Runs :
        \/ MA_Start(r)
        \/ MA_AnalyzeReturns(r)
        \/ MA_PredictReturns(r)
        \/ MA_CraftScriptReturns(r)
        \/ MA_CallOwnerReturns(r)
        \/ MA_ProposeReturns(r)
        \/ MA_ConfirmReturns(r)
        \/ MA_FeedbackReturns(r)
        \/ MA_SubmitRcaReturns(r)
        \/ G_Start(r)
        \/ G_AnalyzeReturns(r)
        \/ G_PredictReturns(r)
        \/ G_CraftScriptReturns(r)
        \/ G_CallOwnerReturns(r)
        \/ G_ProposeReturns(r)
        \/ G_ConfirmReturns(r)
        \/ G_FeedbackReturns(r)
        \/ G_SubmitRcaReturns(r)
        \/ CollaboratorRaises(r)

Spec == Init /\ [][Next]_vars

(***************************************************************************)
(* SpecPair: the service handles two requests, one after the other or      *)
(* interleaved at their awaits; both share the stores and the audit monitor *)
(***************************************************************************)
RunPair == {1, 2}

InitPair ==
    /\ impl \in Impls
    /\ run = [r \in RunPair |-> IdleRun]
    /\ VEHICLE_STATE = EmptyDict
    /\ UEBA_LOG = <<>>
    /\ UEBA_ALERTS = <<>>
    /\ window = EmptyDict
    /\ now = 0
    /\ fn_in = None
    /\ fn_out = None

NextPair ==
    \E r \in RunPair :
        \/ MA_Start(r)
        \/ MA_AnalyzeReturns(r)
        \/ MA_PredictReturns(r)
        \/ MA_CraftScriptReturns(r)
        \/ MA_CallOwnerReturns(r)
        \/ MA_ProposeReturns(r)
        \/ MA_ConfirmReturns(r)
        \/ MA_FeedbackReturns(r)
        \/ MA_SubmitRcaReturns(r)
        \/ G_Start(r)
        \/ G_AnalyzeReturns(r)
        \/ G_PredictReturns(r)
        \/ G_CraftScriptReturns(r)
        \/ G_CallOwnerReturns(r)
        \/ G_ProposeReturns(r)
        \/ G_ConfirmReturns(r)
        \/ G_FeedbackReturns(r)
        \/ G_SubmitRcaReturns(r)
        \/ CollaboratorRaises(r)

SpecPair == InitPair /\ [][NextPair]_vars

(***************************************************************************)
(* SpecLive: MasterAgentGraph alone, every collaborator call it awaits      *)
(* completes (by returning or by raising)                                   *)
(***************************************************************************)
InitLive == Init /\ impl = "MasterAgentGraph"

\* The await a run of the graph is suspended in completes.
G_Returns(r) ==
    \/ G_AnalyzeReturns(r)
    \/ G_PredictReturns(r)
    \/ G_CraftScriptReturns(r)
    \/ G_CallOwnerReturns(r)
    \/ G_ProposeReturns(r)
    \/ G_ConfirmReturns(r)
    \/ G_FeedbackReturns(r)
    \/ G_SubmitRcaReturns(r)
    \/ CollaboratorRaises(r)

NextLive ==
    \E r \in Runs :
        \/ G_Start(r)
        \/ G_AnalyzeReturns(r)
        \/ G_PredictReturns(r)
        \/ G_CraftScriptReturns(r)
        \/ G_CallOwnerReturns(r)
        \/ G_ProposeReturns(r)
        \/ G_ConfirmReturns(r)
        \/ G_FeedbackReturns(r)
        \/ G_SubmitRcaReturns(r)
        \/ CollaboratorRaises(r)

SpecLive == InitLive /\ [][NextLive]_vars /\ \A r \in Runs : WF_vars(G_Returns(r))

(***************************************************************************)
(* SpecHang: two requests; every collaborator call of the second returns,   *)
(* the calls of the first may stay suspended for ever                       *)
(***************************************************************************)
\* The await a MasterAgent run is suspended in returns.
MA_Returns(r) ==
    \/ MA_AnalyzeReturns(r)
    \/ MA_PredictReturns(r)
    \/ MA_CraftScriptReturns(r)
    \/ MA_CallOwnerReturns(r)
    \/ MA_ProposeReturns(r)
    \/ MA_ConfirmReturns(r)
    \/ MA_FeedbackReturns(r)
    \/ MA_SubmitRcaReturns(r)

\* The await a graph run is suspended in returns.
G_ReturnsValue(r) ==
    \/ G_AnalyzeReturns(r)
    \/ G_PredictReturns(r)
    \/ G_CraftScriptReturns(r)
    \/ G_CallOwnerReturns(r)
    \/ G_ProposeReturns(r)
    \/ G_ConfirmReturns(r)
    \/ G_FeedbackReturns(r)
    \/ G_SubmitRcaReturns(r)

NextHang ==
    \E r \in RunPair :
        \/ MA_Start(r)
        \/ MA_AnalyzeReturns(r)
        \/ MA_PredictReturns(r)
        \/ MA_CraftScriptReturns(r)
        \/ MA_CallOwnerReturns(r)
        \/ MA_ProposeReturns(r)
        \/ MA_ConfirmReturns(r)
        \/ MA_FeedbackReturns(r)
        \/ MA_SubmitRcaReturns(r)
        \/ G_Start(r)
        \/ G_AnalyzeReturns(r)
        \/ G_PredictReturns(r)
        \/ G_CraftScriptReturns(r)
        \/ G_CallOwnerReturns(r)
        \/ G_ProposeReturns(r)
        \/ G_ConfirmReturns(r)
        \/ G_FeedbackReturns(r)
        \/ G_SubmitRcaReturns(r)

SpecHang ==
    InitPair /\ [][NextHang]_vars /\ WF_vars(MA_Returns(2)) /\ WF_vars(G_ReturnsValue(2))

(***************************************************************************)
(* SpecBoth: the same process first serves requests with MasterAgent, then *)
(* with MasterAgentGraph, so that a run of each can be compared             *)
(***************************************************************************)
InitBoth == InitPair /\ impl = "MasterAgent"

\* master = MasterAgentGraph(...) replaces master = MasterAgent(...) once the
\* first request is over and before the second is taken up.
UseGraph ==
    /\ impl = "MasterAgent"
    /\ run[1].pc \in {"done", "failed"}
    /\ run[2].pc = "idle"
    /\ impl' = "MasterAgentGraph"
    /\ UNCHANGED <<run, VEHICLE_STATE, UEBA_LOG, UEBA_ALERTS, window, now, fn_in, fn_out>>

NextBoth ==
    \/ UseGraph
    \/ \E r \in RunPair :
        \/ MA_Start(r)
        \/ MA_AnalyzeReturns(r)
        \/ MA_PredictReturns(r)
        \/ MA_CraftScriptReturns(r)
        \/ MA_CallOwnerReturns(r)
        \/ MA_ProposeReturns(r)
        \/ MA_ConfirmReturns(r)
        \/ MA_FeedbackReturns(r)
        \/ MA_SubmitRcaReturns(r)
        \/ G_Start(r)
        \/ G_AnalyzeReturns(r)
        \/ G_PredictReturns(r)
        \/ G_CraftScriptReturns(r)
        \/ G_CallOwnerReturns(r)
        \/ G_ProposeReturns(r)
        \/ G_ConfirmReturns(r)
        \/ G_FeedbackReturns(r)
        \/ G_SubmitRcaReturns(r)
        \/ CollaboratorRaises(r)

SpecBoth == InitBoth /\ [][NextBoth]_vars

(***************************************************************************)
(* SpecUEBA: callers log accesses directly                                 *)
(***************************************************************************)
\* (actor, resource) pairs the callers log: an unauthorized pair of a known
\* actor, an authorized pair, and a pair of an unknown actor whose key string
\* equals the authorized pair's.
LogPairs == { <<"voice", "rca:write">>, <<"voice", "owner:contact">>, <<"voice:owner", "contact">> }
\* time.time() advances by one of these between two calls
ClockSteps == {0, 3}

LogCall ==
    /\ Len(UEBA_LOG) < MaxLogCalls
    /\ \E p \in LogPairs, d \in ClockSteps :
          UEBA_log(p[1], "action", p[2], EmptyDict, now + d)
    /\ UNCHANGED <<impl, run, VEHICLE_STATE, fn_in, fn_out>>

NextUEBA == LogCall

SpecUEBA == Init /\ [][NextUEBA]_vars

(***************************************************************************)
(* SpecWindow: two callers log accesses one second apart, long enough for  *)
(* a rate window to overflow                                               *)
(***************************************************************************)
MaxWindowCalls == 11

WindowPairs == { <<"master", "telematics:read">>, <<"voice", "owner:contact">> }

WindowLogCall ==
    /\ Len(UEBA_LOG) < MaxWindowCalls
    /\ \E p \in WindowPairs :
          UEBA_log(p[1], "action", p[2], EmptyDict, now + 1)
    /\ UNCHANGED <<impl, run, VEHICLE_STATE, fn_in, fn_out>>

NextWindow == WindowLogCall

SpecWindow == Init /\ [][NextWindow]_vars

(***************************************************************************)
(* SpecPure: the pure functions applied to every input                     *)
(***************************************************************************)
Classify ==
    /\ \E s \in Scores :
          /\ fn_in' = Some([fn |-> "classify", score |-> s])
          /\ fn_out' = Some([nodes  |-> WorkflowNodes_classify_risk(s),
                             master |-> MasterAgent_classify_risk(s)])
    /\ UNCHANGED <<impl, run, VEHICLE_STATE, UEBA_LOG, UEBA_ALERTS, window, now>>

\* MasterAgent is passed the severity in lower case (severity="critical",
\* severity="high"); WorkflowNodes is passed state["risk_level"].
MasterSeverity(tier) == LowerTier(tier)

GenerateRca ==
    /\ \E c \in Components, tier \in Tiers :
          /\ fn_in' = Some([fn |-> "rca", component |-> c, tier |-> tier])
          /\ fn_out' = Some([nodes  |-> WorkflowNodes_generate_rca_actions(c, tier),
                             master |-> MasterAgent_generate_rca_actions(c, MasterSeverity(tier))])
    /\ UNCHANGED <<impl, run, VEHICLE_STATE, UEBA_LOG, UEBA_ALERTS, window, now>>

\* Field values a predictor may pass to PredictedIssue(...): scores and
\* confidences in hundredths, horizons in days; in range, on the bounds, and
\* just outside them.
IssueScores == {0 - 1, 0, 50, MaxScore, MaxScore + 1}
IssueHorizons == {0 - 1, 0, 30}
IssueConfidences == {0 - 1, 0, 85, MaxScore, MaxScore + 1}

\* pydantic validation of PredictedIssue: risk_score and confidence are
\* Field(ge=0, le=1); horizon_days is a plain int.
PredictedIssue_valid(risk_score, horizon_days, confidence) ==
    /\ risk_score >= 0
    /\ risk_score <= MaxScore
    /\ confidence >= 0
    /\ confidence <= MaxScore

\* PredictedIssue(risk_score=..., horizon_days=..., confidence=...): the
\* object is built, or ValidationError is raised.
ConstructIssue ==
    /\ \E s \in IssueScores, h \in IssueHorizons, c \in IssueConfidences :
          /\ fn_in' = Some([fn |-> "issue", risk_score |-> s, horizon_days |-> h,
                            confidence |-> c])
          /\ fn_out' = Some([accepted |-> PredictedIssue_valid(s, h, c)])
    /\ UNCHANGED <<impl, run, VEHICLE_STATE, UEBA_LOG, UEBA_ALERTS, window, now>>

NextPure == Classify \/ GenerateRca \/ ConstructIssue

SpecPure == Init /\ [][NextPure]_vars

(***************************************************************************)
(* Properties                                                              *)
(***************************************************************************)
RunIds == DOMAIN run
Called(r, op) == \E i \in 1..Len(run[r].calls) : run[r].calls[i].op = op
HasIssue(r) == run[r].issue # None
Score(r) == run[r].issue[1].risk_score
IsCriticalRun(r) == HasIssue(r) /\ Score(r) >= 80
IsHighRun(r) == HasIssue(r) /\ Score(r) >= 60 /\ Score(r) < 80
IsMediumRun(r) == HasIssue(r) /\ Score(r) >= 40 /\ Score(r) < 60
CallOwnerReturned(r) == run[r].customer_accepted # None
Declined(r) == run[r].customer_accepted = Some(FALSE)
Ledger(r) == run[r].actions

\* C1: in a CRITICAL run (risk_score >= 0.8), once call_owner has returned,
\* true or false, propose is the next collaborator operation invoked.
C1_CriticalAlwaysProposes ==
    \A r \in RunIds :
        (IsCriticalRun(r) /\ CallOwnerReturned(r)) =>
            \E i \in 1..(Len(run[r].calls) - 1) :
                /\ run[r].calls[i].op = "call_owner"
                /\ run[r].calls[i + 1].op = "propose"

C1_Witness ==
    \E r \in RunIds :
        /\ HasIssue(r)
        /\ Score(r) = 85
        /\ Declined(r)
        /\ Called(r, "propose")

\* C2: a completed HIGH run in which call_owner returned false has a
\* follow-up-required marker in its ledger and no scheduling confirmation.
C2_HighDeclinedFollowUp ==
    \A r \in RunIds :
        (run[r].pc = "done" /\ IsHighRun(r) /\ Declined(r)) =>
            /\ Has(Ledger(r), "voice")
            /\ Has(Ledger(r).voice, "follow_up_required")
            /\ Ledger(r).voice.follow_up_required = TRUE
            /\ ~Has(Ledger(r), "scheduling")

\* C3: a completed HIGH run in which call_owner returned false has invoked
\* submit_rca and has never invoked propose, confirm or request_feedback.
C3_HighDeclinedSubmitsRca ==
    \A r \in RunIds :
        (run[r].pc = "done" /\ IsHighRun(r) /\ Declined(r)) =>
            /\ Called(r, "submit_rca")
            /\ ~Called(r, "propose")
            /\ ~Called(r, "confirm")
            /\ ~Called(r, "request_feedback")

\* C4: a MEDIUM run never invokes call_owner, propose, confirm,
\* request_feedback or submit_rca: it ends after craft_script.
C4_MediumNeverCalls ==
    \A r \in RunIds :
        IsMediumRun(r) =>
            /\ \A op \in {"call_owner", "propose", "confirm", "request_feedback", "submit_rca"} :
                  ~Called(r, op)
            /\ (run[r].pc = "done" => Called(r, "craft_script"))

\* C5: whenever confirm is invoked, its slot argument is the first element of
\* the option list propose returned in that run (A for [A,B,C]), and confirm
\* is never invoked when propose returned an empty list.
C5_ConfirmFirstOption ==
    \A r \in RunIds :
        \A i \in 1..Len(run[r].calls) :
            run[r].calls[i].op = "confirm" =>
                /\ i > 1
                /\ run[r].calls[i - 1].op = "propose"
                /\ run[r].appointment_proposal # None
                /\ run[r].appointment_proposal[1].options # <<>>
                /\ run[r].calls[i].arg = Head(run[r].appointment_proposal[1].options)
                /\ (run[r].appointment_proposal[1].options = <<"A", "B", "C">>
                        => run[r].calls[i].arg = "A")

C5_Witness ==
    \E r \in RunIds :
        /\ Called(r, "confirm")
        /\ run[r].appointment_proposal = Some([options |-> <<"A", "B", "C">>])
        /\ run[r].pc = "done"

TierRank(tier) ==
    CASE tier = "LOW" -> 0
      [] tier = "MEDIUM" -> 1
      [] tier = "HIGH" -> 2
      [] tier = "CRITICAL" -> 3

\* C6: both _classify_risk functions equal the reference (>= 0.8 CRITICAL,
\* >= 0.6 HIGH, >= 0.4 MEDIUM, else LOW) on every score of the grid, the
\* boundary values 0.4, 0.6, 0.8 fall in the higher tier, and the result is
\* monotonic non-decreasing in the score.
C6_ClassifyMatchesReference ==
    (fn_in # None /\ fn_in[1].fn = "classify") =>
        LET s == fn_in[1].score
            expected == IF s >= 80 THEN 3 ELSE IF s >= 60 THEN 2 ELSE IF s >= 40 THEN 1 ELSE 0
        IN /\ TierRank(fn_out[1].nodes) = expected
           /\ TierRank(fn_out[1].master) = expected
           /\ (s = 40 => fn_out[1].nodes = "MEDIUM" /\ fn_out[1].master = "MEDIUM")
           /\ (s = 60 => fn_out[1].nodes = "HIGH" /\ fn_out[1].master = "HIGH")
           /\ (s = 80 => fn_out[1].nodes = "CRITICAL" /\ fn_out[1].master = "CRITICAL")
           /\ \A lower \in 0..s :
                 /\ TierRank(WorkflowNodes_classify_risk(lower)) <= TierRank(fn_out[1].nodes)
                 /\ TierRank(MasterAgent_classify_risk(lower)) <= TierRank(fn_out[1].master)

C6_Witness ==
    /\ fn_in = Some([fn |-> "classify", score |-> 80])
    /\ fn_out = Some([nodes |-> "CRITICAL", master |-> "CRITICAL"])

KnownComponents == {"transmission", "brake_system", "engine", "battery"}

SixActions(c) ==
    <<"URGENT: Issue service bulletin",
      WorkflowNodes_component_actions[c][1],
      WorkflowNodes_component_actions[c][2],
      WorkflowNodes_component_actions[c][3],
      "Emergency fleet inspection",
      "Update predictive model with case">>

\* C7: for a known component and tier CRITICAL, _generate_rca_actions returns
\* exactly six actions: the urgent bulletin, the component's three table
\* actions in table order, the emergency fleet inspection, and last the
\* update-predictive-model action; and the RCA a CRITICAL run submits and
\* stores in its ledger is that list, in both orchestrators.
C7_CriticalRcaOrder ==
    /\ \A c \in KnownComponents :
          /\ Len(WorkflowNodes_component_actions[c]) = 3
          /\ WorkflowNodes_generate_rca_actions(c, "CRITICAL") = SixActions(c)
          /\ MasterAgent_generate_rca_actions(c, "critical") = SixActions(c)
    /\ \A r \in RunIds :
          (IsCriticalRun(r) /\ run[r].issue[1].component \in KnownComponents) =>
              /\ \A i \in 1..Len(run[r].calls) :
                    run[r].calls[i].op = "submit_rca" =>
                        run[r].calls[i].arg.actions = SixActions(run[r].issue[1].component)
              /\ Has(Ledger(r), "rca") =>
                    Ledger(r).rca.actions = SixActions(run[r].issue[1].component)

C7_Witness ==
    \E r \in RunIds :
        /\ run[r].pc = "done"
        /\ IsCriticalRun(r)
        /\ run[r].issue[1].component = "engine"
        /\ Has(Ledger(r), "rca")
        /\ Len(Ledger(r).rca.actions) = 6

CountSeverity(alerts, severity) ==
    Cardinality({i \in 1..Len(alerts) : alerts[i].severity = severity})

\* C8: every call of UEBAGuard.log appends exactly one event to the event
\* stream, and appends exactly one high-severity alert when the resource is
\* not in the actor's allow-list and none when it is.
C8_LogAppendsEventAndHighAlert ==
    [][ LET n  == Len(UEBA_LOG)
            ev == UEBA_LOG'[n + 1]
            listed == ev.actor \in DOMAIN ALLOW /\ ev.resource \in ALLOW[ev.actor]
        IN /\ Len(UEBA_LOG') = n + 1
           /\ SubSeq(UEBA_LOG', 1, n) = UEBA_LOG
           /\ CountSeverity(UEBA_ALERTS', "high") - CountSeverity(UEBA_ALERTS, "high")
                 = IF listed THEN 0 ELSE 1 ]_vars

C8_Witness ==
    /\ Len(UEBA_LOG) = 1
    /\ UEBA_LOG[1].actor = "voice"
    /\ UEBA_LOG[1].resource = "rca:write"
    /\ CountSeverity(UEBA_ALERTS, "high") = 1
    /\ Len(UEBA_ALERTS) = 1

\* Accesses by the pair of the newest event, the newest included, whose
\* timestamp lies within the last WindowSec seconds.
RecentByPair(log) ==
    LET ev == log[Len(log)]
    IN Cardinality({i \in 1..Len(log) :
           /\ log[i].actor = ev.actor
           /\ log[i].resource = ev.resource
           /\ ev.ts - log[i].ts <= 3})

\* C9: a call of UEBAGuard.log appends one medium-severity spike alert
\* exactly when, counting the current access, more than 5 accesses by the same
\* (actor, resource) pair have timestamps within the last 3 seconds.
C9_SpikeExactlyPerPair ==
    [][ LET added == CountSeverity(UEBA_ALERTS', "medium") - CountSeverity(UEBA_ALERTS, "medium")
        IN added = IF RecentByPair(UEBA_LOG') > 5 THEN 1 ELSE 0 ]_vars

\* C10: a completed CRITICAL run whose proposal has at least one option
\* returns a ledger with the keys analysis, issue, voice, scheduling and rca.
C10_CriticalLedgerKeys ==
    \A r \in RunIds :
        (/\ run[r].pc = "done"
         /\ IsCriticalRun(r)
         /\ run[r].appointment_proposal # None
         /\ run[r].appointment_proposal[1].options # <<>>) =>
            {"analysis", "issue", "voice", "scheduling", "rca"} \subseteq DOMAIN Ledger(r)

C10_Witness ==
    \E r \in RunIds :
        /\ run[r].pc = "done"
        /\ IsCriticalRun(r)
        /\ run[r].appointment_proposal # None
        /\ run[r].appointment_proposal[1].options # <<>>
        /\ Has(Ledger(r), "scheduling")

\* The collaborator operations a run has invoked, in order.
Ops(r) == [i \in 1..Len(run[r].calls) |-> run[r].calls[i].op]
Accepted(r) == run[r].customer_accepted = Some(TRUE)
HasOptions(r) ==
    /\ run[r].appointment_proposal # None
    /\ run[r].appointment_proposal[1].options # <<>>

\* C11: in a HIGH run in which call_owner returned true, propose is the
\* operation invoked next; and when the proposal has at least one option, the
\* completed run has then invoked confirm, request_feedback and submit_rca in
\* that order and its ledger holds scheduling, feedback and rca.
C11_HighAcceptedSchedules ==
    \A r \in RunIds :
        (IsHighRun(r) /\ Accepted(r)) =>
            /\ Len(Ops(r)) >= 5
            /\ SubSeq(Ops(r), 4, 5) = <<"call_owner", "propose">>
            /\ (run[r].pc = "done" /\ HasOptions(r)) =>
                  /\ SubSeq(Ops(r), 5, Len(Ops(r)))
                        = <<"propose", "confirm", "request_feedback", "submit_rca">>
                  /\ {"scheduling", "feedback", "rca"} \subseteq DOMAIN Ledger(r)

C11_Witness ==
    \E r \in RunIds :
        /\ run[r].pc = "done"
        /\ IsHighRun(r)
        /\ Accepted(r)
        /\ HasOptions(r)
        /\ Has(Ledger(r), "feedback")

IsLowRun(r) == HasIssue(r) /\ Score(r) < 40

\* C12: a LOW run (risk_score < 0.4) invokes no collaborator operation other
\* than analyze and predict and its ledger's voice entry is accepted = false
\* with the below-threshold reason; in a run of any other tier craft_script
\* is the operation invoked after predict.
C12_LowRunStopsAfterPredict ==
    \A r \in RunIds :
        HasIssue(r) =>
            IF IsLowRun(r)
            THEN /\ Ops(r) = <<"analyze", "predict">>
                 /\ run[r].pc = "done"
                 /\ Has(Ledger(r), "voice")
                 /\ Ledger(r).voice = [accepted |-> FALSE,
                                       reason |-> "Risk below engagement threshold"]
            ELSE /\ Len(Ops(r)) >= 3
                 /\ SubSeq(Ops(r), 1, 3) = <<"analyze", "predict", "craft_script">>

C12_Witness ==
    \E r \in RunIds :
        /\ run[r].pc = "done"
        /\ IsLowRun(r)
        /\ Score(r) = 30
        /\ Ledger(r).voice.accepted = FALSE

\* C13: every completed MEDIUM run, in both orchestrators, returns a ledger
\* whose voice entry carries a notification-sent marker.
C13_MediumNotificationSent ==
    \A r \in RunIds :
        (run[r].pc = "done" /\ IsMediumRun(r)) =>
            /\ Has(Ledger(r), "voice")
            /\ Has(Ledger(r).voice, "notification_sent")
            /\ Ledger(r).voice.notification_sent = TRUE

Elements(seq) == {seq[i] : i \in 1..Len(seq)}
GenericActions(c) ==
    <<"Investigate " \o c \o " supplier", "Review " \o c \o " assembly procedures">>

\* C14: for a component outside the table (brakes, injector, coolant, oil)
\* _generate_rca_actions returns the two generic actions naming that component
\* followed by the update-predictive-model action (between the bulletin and
\* the fleet inspection when the tier is CRITICAL); for a tier other than
\* CRITICAL the list holds neither the urgent bulletin nor the emergency
\* fleet inspection; for every component and tier the last element is the
\* update-predictive-model action.  Both copies of the function.
C14_GenericAndLastAction ==
    (fn_in # None /\ fn_in[1].fn = "rca") =>
        LET c == fn_in[1].component
            tier == fn_in[1].tier
        IN \A out \in {fn_out[1].nodes, fn_out[1].master} :
              /\ out[Len(out)] = "Update predictive model with case"
              /\ tier # "CRITICAL" =>
                    /\ "URGENT: Issue service bulletin" \notin Elements(out)
                    /\ "Emergency fleet inspection" \notin Elements(out)
              /\ c \notin KnownComponents =>
                    IF tier = "CRITICAL"
                    THEN out = <<"URGENT: Issue service bulletin">> \o GenericActions(c)
                                 \o <<"Emergency fleet inspection",
                                      "Update predictive model with case">>
                    ELSE out = GenericActions(c) \o <<"Update predictive model with case">>

C14_Witness ==
    /\ fn_in = Some([fn |-> "rca", component |-> "oil", tier |-> "HIGH"])
    /\ fn_out[1].nodes = <<"Investigate oil supplier", "Review oil assembly procedures",
                           "Update predictive model with case">>
    /\ fn_out[1].master = fn_out[1].nodes

NoOptions(r) ==
    /\ run[r].appointment_proposal # None
    /\ run[r].appointment_proposal[1].options = <<>>

\* C15: when propose returns no option (in a CRITICAL run, or a HIGH run whose
\* call was accepted) the run does not fail on it: confirm and
\* request_feedback are never invoked, the ledger gets no scheduling and no
\* feedback entry, and the run goes on to invoke submit_rca and, once that
\* returns, ends with the rca in its ledger.  Both orchestrators.
C15_NoOptionsStillSubmitsRca ==
    \A r \in RunIds :
        NoOptions(r) =>
            /\ ~Called(r, "confirm")
            /\ ~Called(r, "request_feedback")
            /\ ~Has(Ledger(r), "scheduling")
            /\ ~Has(Ledger(r), "feedback")
            /\ Called(r, "submit_rca")
            /\ run[r].pc = "done" => Has(Ledger(r), "rca")
            /\ run[r].pc = "failed" => run[r].error # None

\* C16: in every completed run request_feedback is invoked exactly when
\* confirm returned a confirmation earlier in that run, directly after it,
\* and with that confirmation's booking_id.
C16_FeedbackIffConfirmed ==
    \A r \in RunIds :
        run[r].pc = "done" =>
            /\ Called(r, "request_feedback") <=> run[r].appointment_confirmed # None
            /\ \A i \in 1..Len(run[r].calls) :
                  run[r].calls[i].op = "request_feedback" =>
                      /\ i > 1
                      /\ run[r].calls[i - 1].op = "confirm"
                      /\ run[r].calls[i].arg = run[r].appointment_confirmed[1].booking_id

\* C17: every scheduling entry in a ledger carries auto_scheduled, equal to
\* (tier is CRITICAL and call_owner returned false): false for a HIGH booking
\* and for an accepted CRITICAL booking.
C17_AutoScheduledValue ==
    \A r \in RunIds :
        Has(Ledger(r), "scheduling") =>
            /\ Has(Ledger(r).scheduling, "auto_scheduled")
            /\ Ledger(r).scheduling.auto_scheduled = (IsCriticalRun(r) /\ Declined(r))
            /\ IsHighRun(r) => Ledger(r).scheduling.auto_scheduled = FALSE
            /\ (IsCriticalRun(r) /\ Accepted(r)) => Ledger(r).scheduling.auto_scheduled = FALSE

\* C18: when a collaborator call fails the run is aborted and the caller
\* receives one error that names the step that failed (the operation the
\* run was suspended in, which stays the last one it invoked).
C18_FailureNamesFailedStep ==
    \A r \in RunIds :
        run[r].pc = "failed" =>
            /\ run[r].error # None
            /\ run[r].error[1].detail = LastCall(run[r]).op

\* What the i-th operation a run invoked returned, read from the run's state
\* (the script and the feedback are the same in every run).
ResultOf(r, i) ==
    LET op == run[r].calls[i].op
    IN CASE op = "analyze" -> run[r].analysis
         [] op = "predict" -> run[r].issue
         [] op = "call_owner" -> run[r].customer_accepted
         [] op = "propose" -> run[r].appointment_proposal
         [] op = "confirm" -> run[r].appointment_confirmed
         [] OTHER -> None
\* The i-th operation a run invoked has returned.
Returned(r, i) == i < Len(run[r].calls) \/ (i = Len(run[r].calls) /\ run[r].pc = "done")
SameSample(r1, r2) ==
    /\ run[r1].t # None
    /\ run[r2].t # None
    /\ run[r1].t[1].vehicle_id = run[r2].t[1].vehicle_id
\* The first k operations of both runs are the same calls and returned the
\* same results.
SamePrefix(r1, r2, k) ==
    /\ k <= Len(run[r1].calls)
    /\ k <= Len(run[r2].calls)
    /\ \A i \in 1..k :
          /\ run[r1].calls[i] = run[r2].calls[i]
          /\ Returned(r1, i)
          /\ Returned(r2, i)
          /\ ResultOf(r1, i) = ResultOf(r2, i)

\* C19: audit findings only observe.  Two runs of the same orchestrator for
\* the same vehicle whose collaborators returned the same results so far have
\* made the same next call, or have both returned, with the same ledger,
\* whatever the audit streams and windows held when each step ran and however
\* many alerts were raised meanwhile; UEBAGuard.log never makes a run fail.
C19_AuditObservesOnly ==
    \A r1 \in RunIds, r2 \in RunIds :
        (r1 < r2 /\ SameSample(r1, r2)) =>
            \A k \in 0..Len(run[r1].calls) :
                SamePrefix(r1, r2, k) =>
                    /\ Len(run[r1].calls) > k <=> Len(run[r2].calls) > k
                    /\ (Len(run[r1].calls) > k /\ Len(run[r2].calls) > k) =>
                          run[r1].calls[k + 1] = run[r2].calls[k + 1]
                    /\ (Len(run[r1].calls) = k /\ Len(run[r2].calls) = k) =>
                          /\ run[r1].pc = "done"
                          /\ run[r2].pc = "done"
                          /\ Ledger(r1) = Ledger(r2)

\* The second request started after the first one's unauthorized access was
\* reported, and both ran the same CRITICAL workflow to the end.
C19_Witness ==
    /\ run[1].pc = "done"
    /\ run[2].pc = "done"
    /\ IsCriticalRun(1)
    /\ SameSample(1, 2)
    /\ SamePrefix(1, 2, Len(run[1].calls))
    /\ Len(run[1].calls) = 7
    /\ Ledger(1) = Ledger(2)
    /\ Len(UEBA_ALERTS) = 2
    /\ UEBA_LOG[2].resource = "critical_path"
    /\ UEBA_LOG[3].resource = "telematics:read"

\* Position of a step in the workflow.
StepRank(pc) ==
    CASE pc = "idle" -> 0
      [] pc = "analyze" -> 1
      [] pc = "predict" -> 2
      [] pc = "craft_script" -> 3
      [] pc = "call_owner" -> 4
      [] pc = "propose" -> 5
      [] pc = "confirm" -> 6
      [] pc = "request_feedback" -> 7
      [] pc = "submit_rca" -> 8
      [] OTHER -> 9
NoRepeatedCall(r) ==
    \A i \in 1..Len(run[r].calls), j \in 1..Len(run[r].calls) :
        i # j => run[r].calls[i].op # run[r].calls[j].op

\* C20: a MasterAgentGraph run whose awaited collaborator calls all return
\* reaches END (a started run always comes to END or to the failure of a
\* call); within one run no collaborator operation is invoked twice and every
\* step moves the run strictly forward in the workflow, so no step runs twice.
C20_GraphRunReachesEnd ==
    /\ [](\A r \in Runs : NoRepeatedCall(r))
    /\ [][\A r \in Runs :
             run'[r] # run[r] => StepRank(run'[r].pc) > StepRank(run[r].pc)]_vars
    /\ \A r \in Runs :
          (run[r].pc \in Waiting) ~> (run[r].pc \in {"done", "failed"})

C20_Witness ==
    \E r \in RunIds :
        /\ impl = "MasterAgentGraph"
        /\ run[r].pc = "done"
        /\ Len(run[r].calls) = 8
        /\ NoRepeatedCall(r)

\* C21: across the steps of a run the set of top-level keys of the ledger
\* only grows, a script stored under the voice entry stays there with the
\* same content, and once call_owner has returned the voice entry holds both
\* the script craft_script returned and the acceptance result.
C21_LedgerKeysOnlyGrow ==
    /\ [](\A r \in Runs :
            CallOwnerReturned(r) =>
                /\ Has(Ledger(r), "voice")
                /\ Has(Ledger(r).voice, "script")
                /\ Ledger(r).voice.script = run[r].voice_script[1]
                /\ Has(Ledger(r).voice, "accepted")
                /\ Ledger(r).voice.accepted = run[r].customer_accepted[1])
    /\ [][\A r \in Runs :
             /\ DOMAIN run[r].actions \subseteq DOMAIN run'[r].actions
             /\ (Has(run[r].actions, "voice") /\ Has(run[r].actions.voice, "script")) =>
                   /\ Has(run'[r].actions.voice, "script")
                   /\ run'[r].actions.voice.script = run[r].actions.voice.script]_vars

C21_Witness ==
    \E r \in RunIds :
        /\ impl = "MasterAgentGraph"
        /\ run[r].pc = "done"
        /\ Accepted(r)
        /\ Ledger(r).voice.script = ScriptResult
        /\ DOMAIN Ledger(r) = {"analysis", "issue", "risk_level", "voice", "scheduling",
                               "feedback", "rca"}

VehicleOf(r) == run[r].t[1].vehicle_id
\* The run has stored its summary: MasterAgent stores it when predict has
\* returned, the graph when the run returns.
HasStored(r) == IF impl = "MasterAgent" THEN HasIssue(r) ELSE run[r].pc = "done"
\* The step in which run r returns its ledger.
ReturnsNow(r) == run[r].pc # "done" /\ run'[r].pc = "done"

StartAccess(r) ==
    [actor |-> "master", action |-> "read", resource |-> "telematics:read",
     details |-> [vehicle_id |-> VehicleOf(r)]]
DecisionAccess(r) ==
    [actor |-> "master", action |-> "decision",
     resource |-> MA_PathResource(MasterAgent_branch(Score(r))),
     details |-> [vehicle_id |-> VehicleOf(r), component |-> run[r].issue[1].component]]
LoggedDecision(r) ==
    impl = "MasterAgent" /\ HasIssue(r) /\ MasterAgent_branch(Score(r)) # "low"
AccessesOf(r) ==
    (IF run[r].t # None THEN {StartAccess(r)} ELSE {})
        \cup (IF LoggedDecision(r) THEN {DecisionAccess(r)} ELSE {})
Access(ev) ==
    [actor |-> ev.actor, action |-> ev.action, resource |-> ev.resource, details |-> ev.details]

\* C23: whatever the interleaving of two concurrent runs at their awaits, for
\* the same or different vehicles, the event stream holds exactly one event
\* per log call made (none lost, duplicated or merged), and every entry of
\* the state table is the complete summary one run for that vehicle stored.
C23_SharedStoresNotCorrupted ==
    LET a1 == AccessesOf(1)
        a2 == AccessesOf(2)
        Count(a) == Cardinality({i \in 1..Len(UEBA_LOG) : Access(UEBA_LOG[i]) = a})
    IN /\ Len(UEBA_LOG) = Cardinality(a1) + Cardinality(a2)
       /\ \A a \in a1 \cup a2 :
             Count(a) = (IF a \in a1 THEN 1 ELSE 0) + (IF a \in a2 THEN 1 ELSE 0)
       /\ \A v \in DOMAIN VEHICLE_STATE :
             \E q \in RunPair :
                 /\ HasStored(q)
                 /\ VehicleOf(q) = v
                 /\ VEHICLE_STATE[v] = Summary(run[q])

\* Both requests, for the same vehicle, are suspended in a collaborator call
\* after each has logged twice and stored its summary.
C23_Witness ==
    /\ run[1].pc = "call_owner"
    /\ run[2].pc = "propose"
    /\ VehicleOf(1) = VehicleOf(2)
    /\ Len(UEBA_LOG) = 4
    /\ UEBA_LOG[2].resource = "telematics:read"
    /\ VEHICLE_STATE[VehicleOf(1)] = Summary(run[1])

\* C24: no run waits on another.  A request can always be taken up and a
\* suspended run can always resume when its call returns, whatever the other
\* run is doing; and the second request, whose calls all return, reaches END
\* and returns its ledger although the first may stay suspended for ever in
\* any of its calls (for the same vehicle or another).
C24_NoRunWaitsOnAnother ==
    /\ [](\A r \in RunPair :
            /\ run[r].pc = "idle" => ENABLED (MA_Start(r) \/ G_Start(r))
            /\ run[r].pc \in Waiting => ENABLED (MA_Returns(r) \/ G_ReturnsValue(r)))
    /\ (run[2].pc \in Waiting) ~> (run[2].pc = "done")

\* The second request has returned its ledger while the first, for the same
\* vehicle, is still suspended in call_owner.
C24_Witness ==
    /\ run[1].pc = "call_owner"
    /\ run[2].pc = "done"
    /\ VehicleOf(1) = VehicleOf(2)
    /\ Has(Ledger(2), "rca")

\* Events the orchestrator itself has logged.
MasterEvents == {i \in 1..Len(UEBA_LOG) : UEBA_LOG[i].actor = "master"}

\* C25: every collaborator call the orchestrator makes is recorded by the
\* orchestrator as an event of the audit stream: a run that has made n calls
\* has appended at least n orchestrator events.
C25_EveryCallIsLogged ==
    \A r \in RunIds :
        Cardinality(MasterEvents) >= Len(run[r].calls)

\* C26: a PredictedIssue that is constructed has risk_score in [0,1],
\* confidence in [0,1] and a non-negative horizon; a construction with any of
\* the three out of range is rejected.
C26_IssueFieldsInRange ==
    (fn_in # None /\ fn_in[1].fn = "issue") =>
        (fn_out[1].accepted <=>
            /\ fn_in[1].risk_score >= 0
            /\ fn_in[1].risk_score <= 100
            /\ fn_in[1].confidence >= 0
            /\ fn_in[1].confidence <= 100
            /\ fn_in[1].horizon_days >= 0)

IsPrefix(s1, s2) == Len(s1) <= Len(s2) /\ SubSeq(s2, 1, Len(s1)) = s1

\* C27: both audit streams are append-only: over any sequence of log calls
\* their lengths never decrease and an event or alert once appended keeps
\* its position and content; and the event embedded in every alert is an
\* event of the event stream.
C27_AuditStreamsAppendOnly ==
    /\ [](\A i \in 1..Len(UEBA_ALERTS) :
            \E j \in 1..Len(UEBA_LOG) : UEBA_LOG[j] = UEBA_ALERTS[i].event)
    /\ [][IsPrefix(UEBA_LOG, UEBA_LOG') /\ IsPrefix(UEBA_ALERTS, UEBA_ALERTS')]_vars

C27_Witness ==
    /\ Len(UEBA_LOG) = 6
    /\ CountSeverity(UEBA_ALERTS, "medium") = 1
    /\ CountSeverity(UEBA_ALERTS, "high") >= 1

\* C28: within one run the collaborator calls are sequential and ordered.
\* The only call a run is suspended in is the last one it issued, a step
\* issues at most one call and only when the run starts or its previous call
\* returns, and the operations invoked appear in the order analyze, predict,
\* craft_script, call_owner, propose, confirm, request_feedback, submit_rca.
C28_CallsSequentialAndOrdered ==
    /\ [](\A r \in Runs :
            /\ \A i \in 1..Len(run[r].calls), j \in 1..Len(run[r].calls) :
                  i < j => StepRank(run[r].calls[i].op) < StepRank(run[r].calls[j].op)
            /\ run[r].pc \in Waiting =>
                  /\ run[r].calls # <<>>
                  /\ LastCall(run[r]).op = run[r].pc)
    /\ [][\A r \in Runs :
             /\ IsPrefix(run[r].calls, run'[r].calls)
             /\ Len(run'[r].calls) <= Len(run[r].calls) + 1
             /\ Len(run'[r].calls) > Len(run[r].calls) =>
                   /\ run[r].pc \in Waiting \cup {"idle"}
                   /\ run'[r].pc = LastCall(run'[r]).op]_vars

C28_Witness ==
    \E r \in RunIds :
        /\ impl = "MasterAgent"
        /\ run[r].pc = "done"
        /\ Ops(r) = <<"analyze", "predict", "craft_script", "call_owner", "propose",
                       "confirm", "request_feedback", "submit_rca">>

\* The tier of a score by the thresholds 0.8, 0.6, 0.4.
TierOfScore(s) ==
    IF s >= 80 THEN "CRITICAL" ELSE IF s >= 60 THEN "HIGH" ELSE IF s >= 40 THEN "MEDIUM" ELSE "LOW"

\* C29: after predict the stored tier is never present without its issue
\* and is the tier of issue.risk_score, and the branch the run takes is that
\* of the risk_level written to the ledger: a LOW run ends after predict,
\* every other run crafts a script, the urgency stored with the call is the
\* ledger's tier, only CRITICAL and HIGH runs propose or submit an RCA, only
\* a CRITICAL run proposes after a declined call, and the RCA starts with
\* the urgent bulletin exactly for CRITICAL.
C29_TierMatchesIssueAndBranch ==
    \A r \in RunIds :
        /\ run[r].risk_level # None =>
              /\ HasIssue(r)
              /\ run[r].risk_level[1] = TierOfScore(Score(r))
        /\ Has(Ledger(r), "risk_level") <=> HasIssue(r)
        /\ HasIssue(r) =>
              LET tier == Ledger(r).risk_level
              IN /\ tier = TierOfScore(Score(r))
                 /\ tier = "LOW" <=> (run[r].pc = "done" /\ Len(run[r].calls) = 2)
                 /\ (Has(Ledger(r), "voice") /\ Has(Ledger(r).voice, "urgency")) =>
                       Ledger(r).voice.urgency \in {tier, LowerTier(tier)}
                 /\ Called(r, "propose") => tier \in {"CRITICAL", "HIGH"}
                 /\ (Called(r, "propose") /\ Declined(r)) => tier = "CRITICAL"
                 /\ \A i \in 1..Len(run[r].calls) :
                       run[r].calls[i].op = "submit_rca" =>
                           /\ tier \in {"CRITICAL", "HIGH"}
                           /\ tier = "CRITICAL" <=>
                                 run[r].calls[i].arg.actions[1] = "URGENT: Issue service bulletin"

C29_Witness ==
    \E r \in RunIds :
        /\ impl = "MasterAgent"
        /\ run[r].pc = "done"
        /\ HasIssue(r)
        /\ Score(r) = 80
        /\ Ledger(r).risk_level = "CRITICAL"
        /\ Ledger(r).voice.urgency = "critical"
        /\ Called(r, "submit_rca")

\* Indices of the events logged under a window key, and their timestamps in
\* arrival order.
KeyOf(ev) == WindowKey(ev.actor, ev.resource)
RECURSIVE StampsOf(_, _)
StampsOf(key, n) ==
    IF n = 0 THEN <<>>
    ELSE IF KeyOf(UEBA_LOG[n]) = key
         THEN Append(StampsOf(key, n - 1), UEBA_LOG[n].ts)
         ELSE StampsOf(key, n - 1)

\* C30: after every call of UEBAGuard.log the window kept for each key holds
\* at most 10 timestamps, they are the timestamps of the most recent accesses
\* logged under that key, in arrival order, and the timestamp of the current
\* access is the last one of its key's window.
C30_WindowKeepsLastTen ==
    /\ DOMAIN window = {KeyOf(UEBA_LOG[i]) : i \in 1..Len(UEBA_LOG)}
    /\ \A key \in DOMAIN window :
          /\ Len(window[key]) <= 10
          /\ window[key] = LastN(StampsOf(key, Len(UEBA_LOG)), 10)
    /\ UEBA_LOG # <<>> =>
          LET ev == UEBA_LOG[Len(UEBA_LOG)]
              arr == window[KeyOf(ev)]
          IN arr[Len(arr)] = ev.ts

\* The eleventh access of one key has pushed the first out of its window.
C30_Witness ==
    /\ Len(UEBA_LOG) = 11
    /\ Has(window, "master:telematics:read")
    /\ window["master:telematics:read"] = <<2, 3, 4, 5, 6, 7, 8, 9, 10, 11>>

\* Accesses by the pair of event ev, ev included, logged no later than ev
\* and within the WindowSec seconds before it.
PairAccessesBefore(ev) ==
    Cardinality({i \in 1..Len(UEBA_LOG) :
        /\ UEBA_LOG[i].actor = ev.actor
        /\ UEBA_LOG[i].resource = ev.resource
        /\ UEBA_LOG[i].ts <= ev.ts
        /\ ev.ts - UEBA_LOG[i].ts <= 3})

\* C31: spike counting is per (actor, resource) pair, also for names that
\* contain ':': every spike alert was raised by an access whose own pair had
\* made more than 5 accesses in the 3 seconds up to it; accesses of another
\* pair never count.
C31_SpikeCountsOwnPairOnly ==
    \A i \in 1..Len(UEBA_ALERTS) :
        UEBA_ALERTS[i].severity = "medium" =>
            PairAccessesBefore(UEBA_ALERTS[i].event) > 5

\* C32: every event a run logs under actor master names a resource of
\* master's allow-list, so no run raises a high-severity alert for master.
C32_MasterLogsAllowedResources ==
    /\ \A i \in 1..Len(UEBA_LOG) :
          UEBA_LOG[i].actor = "master" => UEBA_LOG[i].resource \in ALLOW["master"]
    /\ \A i \in 1..Len(UEBA_ALERTS) :
          ~(UEBA_ALERTS[i].actor = "master" /\ UEBA_ALERTS[i].severity = "high")

\* The run was executed by MasterAgentGraph (only the graph keeps the tier in
\* its state), resp. by MasterAgent.
RanOnGraph(r) == run[r].risk_level # None
RanOnMaster(r) == HasIssue(r) /\ run[r].risk_level = None
\* Both runs got the same sample and the same results from the collaborators
\* they called.
SameResults(r1, r2) ==
    /\ SameSample(r1, r2)
    /\ run[r1].analysis = run[r2].analysis
    /\ run[r1].issue = run[r2].issue
    /\ run[r1].customer_accepted = run[r2].customer_accepted
    /\ \/ run[r1].appointment_proposal = run[r2].appointment_proposal
       \/ run[r1].appointment_proposal = None
       \/ run[r2].appointment_proposal = None
    /\ \/ run[r1].appointment_confirmed = run[r2].appointment_confirmed
       \/ run[r1].appointment_confirmed = None
       \/ run[r2].appointment_confirmed = None

\* C33: a completed MasterAgent run and a completed MasterAgentGraph run
\* that got the same sample and the same collaborator results, of any tier
\* other than MEDIUM, have invoked the same sequence of operations and have
\* ledgers with the same set of top-level keys.
C33_OrchestratorsAgree ==
    \A r1 \in RunIds, r2 \in RunIds :
        (/\ run[r1].pc = "done"
         /\ run[r2].pc = "done"
         /\ RanOnMaster(r1)
         /\ RanOnGraph(r2)
         /\ ~IsMediumRun(r1)
         /\ SameResults(r1, r2)) =>
            /\ Ops(r1) = Ops(r2)
            /\ DOMAIN Ledger(r1) = DOMAIN Ledger(r2)

\* C34: MasterAgentGraph writes the state table only when a run has reached
\* END.  Every entry of the table belongs to a run that returned, and a step
\* of a run that does not return (its start, a call returning in mid-run, a
\* call failing) leaves the whole table as it was, so an aborted run has
\* changed nothing.
C34_GraphStoresOnlyAtEnd ==
    /\ [](impl = "MasterAgentGraph" =>
            \A v \in DOMAIN VEHICLE_STATE :
                \E r \in Runs :
                    /\ run[r].pc = "done"
                    /\ VehicleOf(r) = v
                    /\ VEHICLE_STATE[v] = Summary(run[r]))
    /\ [][impl = "MasterAgentGraph" =>
             \A r \in Runs :
                 (run'[r] # run[r] /\ run'[r].pc # "done") =>
                     VEHICLE_STATE' = VEHICLE_STATE]_vars

C34_Witness ==
    \E r \in RunIds :
        /\ impl = "MasterAgentGraph"
        /\ run[r].pc = "failed"
        /\ LastCall(run[r]).op = "submit_rca"
        /\ Has(Ledger(r), "scheduling")
        /\ ~Has(VEHICLE_STATE, VehicleOf(r))

\* The step in which predict returns its issue to run r.
PredictReturnsNow(r) == run[r].issue = None /\ run'[r].issue # None
EngagementOps ==
    {"craft_script", "call_owner", "propose", "confirm", "request_feedback",
     "submit_rca"}

\* C35: MasterAgent writes the state table entry of a run's vehicle exactly
\* once, in the step in which predict returns and before any engagement
\* collaborator has been invoked; no other step of a run changes the table.
\* So a run's vehicle has an entry whenever its analyze and predict have
\* succeeded, also when a later call of the run has failed, and an entry
\* exists only for a vehicle with such a run.
C35_MasterStoresOnceAfterPredict ==
    /\ [][impl = "MasterAgent" =>
             \A r \in Runs :
                 /\ PredictReturnsNow(r) =>
                       /\ \A op \in EngagementOps : ~Called(r, op)
                       /\ Has(VEHICLE_STATE', VehicleOf(r))
                       /\ VEHICLE_STATE'[VehicleOf(r)] = Summary(run'[r])
                       /\ \A v \in DOMAIN VEHICLE_STATE \ {VehicleOf(r)} :
                             /\ Has(VEHICLE_STATE', v)
                             /\ VEHICLE_STATE'[v] = VEHICLE_STATE[v]
                 /\ (run'[r] # run[r] /\ ~PredictReturnsNow(r)) =>
                       VEHICLE_STATE' = VEHICLE_STATE]_vars
    /\ [](impl = "MasterAgent" =>
            /\ \A r \in Runs :
                  HasIssue(r) => Has(VEHICLE_STATE, VehicleOf(r))
            /\ \A v \in DOMAIN VEHICLE_STATE :
                  \E r \in Runs : HasIssue(r) /\ VehicleOf(r) = v)

C35_Witness ==
    \E r \in RunIds :
        /\ impl = "MasterAgent"
        /\ run[r].pc = "failed"
        /\ LastCall(run[r]).op = "call_owner"
        /\ Has(VEHICLE_STATE, VehicleOf(r))
        /\ VEHICLE_STATE[VehicleOf(r)] = Summary(run[r])

\* C36: in every state of a run, on either orchestrator, the ledger entries
\* respect their dependencies: feedback is present only with a scheduling
\* entry that holds a confirmation, scheduling is present only with a voice
\* entry that records the answer call_owner returned, and rca is present only
\* with the issue and risk_level entries.
C36_LedgerDependencies ==
    \A r \in RunIds :
        /\ Has(Ledger(r), "feedback") =>
              /\ Has(Ledger(r), "scheduling")
              /\ Has(Ledger(r).scheduling, "confirmation")
              /\ run[r].appointment_confirmed = Some(Ledger(r).scheduling.confirmation)
        /\ Has(Ledger(r), "scheduling") =>
              /\ Called(r, "call_owner")
              /\ Has(Ledger(r), "voice")
              /\ Has(Ledger(r).voice, "accepted")
              /\ run[r].customer_accepted = Some(Ledger(r).voice.accepted)
        /\ Has(Ledger(r), "rca") =>
              /\ Has(Ledger(r), "issue")
              /\ Has(Ledger(r), "risk_level")
              /\ run[r].issue = Some(Ledger(r).issue)

C36_Witness ==
    \E r \in RunIds :
        /\ run[r].pc = "done"
        /\ {"feedback", "scheduling", "rca"} \subseteq DOMAIN Ledger(r)
        /\ Ledger(r).scheduling.confirmation.booking_id \in BookingIds

====
